---- MODULE Spec2Model ----
(***************************************************************************)
(* ngx-typesafe-routes: the path-template engine (route-registry.ts), the  *)
(* TypedRouter service and the TypedRouterLinkActive directive.            *)
(*                                                                         *)
(* A JavaScript string is a sequence of one-character strings:            *)
(* "u/:a" is <<"u", "/", ":", "a">>.  A JavaScript value is a record       *)
(* [kind, s, items]: kind is what typeof/Array.isArray/=== null tell       *)
(* apart, s the characters of a string, items the elements of an array.    *)
(* An object is the sequence of its entries [key, value] in the order      *)
(* Object.entries yields them (insertion order: no key of the model is an  *)
(* integer index); the keys of one object are distinct.                    *)
(***************************************************************************)
EXTENDS Integers, Sequences, FiniteSets, TLC

VARIABLES
    pc,         \* "idle": no call in progress; "done": a call has returned
    call,       \* the last call: its operation and its arguments
    ret,        \* what the last call returned
    routerUrl,  \* Router.url of the underlying Angular router
    dirIsActive,    \* TypedRouterLinkActiveDirective.isActive
    hostClasses,    \* the classes of the directive's host element
    snapshot,   \* ActivatedRoute.snapshot of the activated route
    held,       \* the objects the application made and passes to its calls
    navigations,    \* the calls the last operation made to Router.navigate
    link,       \* TypedRouterLinkDirective: its inputs and its href
    indexes,    \* the full-path index objects allocated so far
    callers     \* per caller: the last registerRoutes call and its registry

vars ==
    <<pc, call, ret, routerUrl, dirIsActive, hostClasses, snapshot, held,
      navigations, link, indexes, callers>>

(***************************************************************************)
(* Bounds of the model.                                                    *)
(***************************************************************************)
MaxSegs == 2
MaxParams == 2
MaxQuery == 2
MaxUrlSegs == 2
MaxNodes == 3
MaxIndexes == 3

(***************************************************************************)
(* JavaScript values.                                                      *)
(***************************************************************************)
StrVal(chars) == [kind |-> "string", s |-> chars, items |-> <<>>]
ArrVal(elems) == [kind |-> "array", s |-> <<>>, items |-> elems]
NullVal == [kind |-> "null", s |-> <<>>, items |-> <<>>]
UndefVal == [kind |-> "undefined", s |-> <<>>, items |-> <<>>]
TrueVal == [kind |-> "true", s |-> <<>>, items |-> <<>>]
FalseVal == [kind |-> "false", s |-> <<>>, items |-> <<>>]
BoolVal(b) == IF b THEN TrueVal ELSE FalseVal

Entry(k, v) == [key |-> k, value |-> v]

SeqsUpTo(S, n) == UNION {[1..m -> S] : m \in 0..n}

\* The objects with at most n entries, keys from K (distinct), values from V.
Objects(K, V, n) ==
    {o \in SeqsUpTo({Entry(k, v) : k \in K, v \in V}, n) :
        \A i, j \in 1..Len(o) : o[i].key = o[j].key => i = j}

Min(S) == CHOOSE x \in S : \A y \in S : x <= y

Range(f) == {f[i] : i \in DOMAIN f}

(***************************************************************************)
(* String primitives of the JavaScript runtime.                            *)
(***************************************************************************)
\* \w of a regular expression: [A-Za-z0-9_] (the letters the model uses).
WordChars == {"a", "b", "u", "x", "q", "f", "t", "g", "p", "n", "l", "r", "e"}

\* String(value)
String(v) ==
    CASE v.kind = "string" -> v.s
      [] v.kind = "null" -> <<"n", "u", "l", "l">>
      [] v.kind = "undefined" -> <<"u", "n", "d", "e", "f", "i", "n", "e", "d">>
      [] v.kind = "true" -> <<"t", "r", "u", "e">>
      [] OTHER -> <<>>

\* Array.prototype.join
RECURSIVE join(_, _)
join(parts, sep) ==
    IF parts = <<>> THEN <<>>
    ELSE IF Len(parts) = 1 THEN parts[1]
    ELSE parts[1] \o sep \o join(Tail(parts), sep)

\* String.prototype.startsWith
startsWith(str, pat) ==
    Len(pat) <= Len(str) /\ SubSeq(str, 1, Len(pat)) = pat

\* String.prototype.split(sep)[0] for a one-character separator
RECURSIVE splitFirst(_, _)
splitFirst(str, sep) ==
    IF str = <<>> \/ Head(str) = sep THEN <<>>
    ELSE <<Head(str)>> \o splitFirst(Tail(str), sep)

\* String.prototype.split(sep) for a one-character separator
RECURSIVE split(_, _)
split(str, sep) ==
    IF \A i \in 1..Len(str) : str[i] # sep THEN <<str>>
    ELSE <<splitFirst(str, sep)>>
            \o split(SubSeq(str, Len(splitFirst(str, sep)) + 2, Len(str)), sep)

\* A replace that replaces every occurrence (String.prototype.replaceAll).
RECURSIVE replace_EveryOccurrence(_, _, _)
replace_EveryOccurrence(str, pat, rep) ==
    IF Len(str) < Len(pat) \/ pat = <<>> THEN str
    ELSE IF startsWith(str, pat)
    THEN rep \o replace_EveryOccurrence(SubSeq(str, Len(pat) + 1, Len(str)), pat, rep)
    ELSE <<Head(str)>> \o replace_EveryOccurrence(Tail(str), pat, rep)

\* String.prototype.replace(pattern, replacement) with a string pattern: the
\* first occurrence only.  The replacement is always the output of
\* encodeURIComponent, which holds no "$", so no replacement pattern applies.
RECURSIVE replace(_, _, _)
replace(str, pat, rep) ==
    IF Len(str) < Len(pat) THEN str
    ELSE IF startsWith(str, pat) THEN rep \o SubSeq(str, Len(pat) + 1, Len(str))
    ELSE <<Head(str)>> \o replace(Tail(str), pat, rep)

\* encodeURIComponent, one character: A-Z a-z 0-9 - _ . ! ~ * ' ( ) are kept,
\* every other character becomes its percent-encoded UTF-8 bytes.
encodeChar(c) ==
    CASE c = "/" -> <<"%", "2", "F">>
      [] c = ":" -> <<"%", "3", "A">>
      [] c = "?" -> <<"%", "3", "F">>
      [] c = "#" -> <<"%", "2", "3">>
      [] c = " " -> <<"%", "2", "0">>
      [] c = "&" -> <<"%", "2", "6">>
      [] c = "=" -> <<"%", "3", "D">>
      [] c = "%" -> <<"%", "2", "5">>
      [] OTHER -> <<c>>

RECURSIVE encodeURIComponent(_)
encodeURIComponent(str) ==
    IF str = <<>> THEN <<>>
    ELSE encodeChar(Head(str)) \o encodeURIComponent(Tail(str))

\* The length of the longest prefix of str made of \w characters.
RECURSIVE wordRun(_)
wordRun(str) ==
    IF str # <<>> /\ Head(str) \in WordChars THEN 1 + wordRun(Tail(str)) ELSE 0

\* str.match(/:(\w+)/g) ?? []: every match of the pattern, left to right.
RECURSIVE matchParamTokens(_)
matchParamTokens(str) ==
    IF str = <<>> THEN <<>>
    ELSE IF Head(str) = ":" /\ wordRun(Tail(str)) > 0
    THEN <<SubSeq(str, 1, 1 + wordRun(Tail(str)))>>
            \o matchParamTokens(SubSeq(str, 2 + wordRun(Tail(str)), Len(str)))
    ELSE matchParamTokens(Tail(str))

(***************************************************************************)
(* route-registry.ts: path utilities.                                      *)
(***************************************************************************)
\* The value of `result` before the loop of buildPath and after each of its
\* iterations, one per entry of params in Object.entries order.
RECURSIVE substituteSteps(_, _)
substituteSteps(result, entries) ==
    IF entries = <<>> THEN <<result>>
    ELSE <<result>> \o
         substituteSteps(
             replace(result, <<":">> \o entries[1].key,
                     encodeURIComponent(String(entries[1].value))),
             Tail(entries))

\* A buildPath that returns the substituted string as it is.
ensureLeadingSlash_Skipped(result) == result

\* A buildPath that prefixes "/" whatever the string starts with.
ensureLeadingSlash_Always(result) == <<"/">> \o result

\* Lines 247-250 of buildPath.
ensureLeadingSlash(result) ==
    IF ~startsWith(result, <<"/">>) THEN <<"/">> \o result ELSE result

\* buildPath(path, params); every caller passes an object for params.
buildPath(path, params) ==
    LET steps == substituteSteps(path, params)
    IN  ensureLeadingSlash(steps[Len(steps)])

\* getParamNames(path)
getParamNames(path) ==
    LET matches == matchParamTokens(path)
    IN  [i \in 1..Len(matches) |-> Tail(matches[i])]

hasOwn(params, name) == \E i \in 1..Len(params) : params[i].key = name

get(params, name) ==
    IF hasOwn(params, name)
    THEN params[CHOOSE i \in 1..Len(params) : params[i].key = name].value
    ELSE UndefVal

\* validateParams(path, params)
validateParams(path, params) ==
    LET matches == matchParamTokens(path)
        requiredParams == [i \in 1..Len(matches) |-> Tail(matches[i])]
    IN  \A i \in 1..Len(requiredParams) :
            ~(~hasOwn(params, requiredParams[i])
              \/ get(params, requiredParams[i]).kind = "undefined"
              \/ get(params, requiredParams[i]).kind = "null")

(***************************************************************************)
(* URLSearchParams: the list of its [name, value] pairs.                   *)
(***************************************************************************)
\* URLSearchParams.append(name, value)
append(list, name, value) == Append(list, [name |-> name, value |-> value])

\* URLSearchParams.set(name, value): the first pair of that name takes the
\* value and the other pairs of that name go; appended when there is none.
set(list, name, value) ==
    IF \E i \in 1..Len(list) : list[i].name = name
    THEN LET first == Min({i \in 1..Len(list) : list[i].name = name})
             kept == {i \in 1..Len(list) : list[i].name # name \/ i = first}
             Nth(n) == CHOOSE i \in kept : Cardinality({j \in kept : j < i}) = n - 1
         IN  [n \in 1..Cardinality(kept) |->
                 IF Nth(n) = first THEN [name |-> name, value |-> value]
                 ELSE list[Nth(n)]]
    ELSE append(list, name, value)

\* The application/x-www-form-urlencoded byte serializer, one character:
\* A-Z a-z 0-9 * - . _ are kept, a space becomes "+", every other character
\* its percent-encoded bytes.
formEncodeChar(c) == IF c = " " THEN <<"+">> ELSE encodeChar(c)

RECURSIVE formEncode(_)
formEncode(str) ==
    IF str = <<>> THEN <<>>
    ELSE formEncodeChar(Head(str)) \o formEncode(Tail(str))

\* URLSearchParams.toString()
toString(list) ==
    join([i \in 1..Len(list) |->
            formEncode(list[i].name) \o <<"=">> \o formEncode(list[i].value)],
         <<"&">>)

\* An array value whose elements are set, each replacing the one before.
RECURSIVE appendEach_Set(_, _, _)
appendEach_Set(searchParams, key, elems) ==
    IF elems = <<>> THEN searchParams
    ELSE appendEach_Set(set(searchParams, key, elems[1]), key, Tail(elems))

\* value.forEach((v) => searchParams.append(key, v))
RECURSIVE appendEach(_, _, _)
appendEach(searchParams, key, elems) ==
    IF elems = <<>> THEN searchParams
    ELSE appendEach(append(searchParams, key, elems[1]), key, Tail(elems))

\* The loop of buildUrl over Object.entries(queryParams).
RECURSIVE collectQuery(_, _)
collectQuery(searchParams, entries) ==
    IF entries = <<>> THEN searchParams
    ELSE LET key == entries[1].key
             value == entries[1].value
         IN  IF value.kind = "null" \/ value.kind = "undefined"
             THEN collectQuery(searchParams, Tail(entries))
             ELSE IF value.kind = "array"
             THEN collectQuery(appendEach(searchParams, key, value.items),
                               Tail(entries))
             ELSE collectQuery(set(searchParams, key, String(value)),
                               Tail(entries))

\* buildUrl(path, params, queryParams?); queryParams is [given, entries],
\* not given when the argument is left out.
buildUrl(path, params, queryParams) ==
    LET url == buildPath(path, params)
    IN  IF queryParams.given
        THEN LET queryString == toString(collectQuery(<<>>, queryParams.entries))
             IN  IF queryString # <<>> THEN url \o <<"?">> \o queryString
                 ELSE url
        ELSE url

(***************************************************************************)
(* TypedRouterService: navigate, createUrl, serializePath.  An optional    *)
(* object argument is [given, entries]; NavigationExtras is a record of    *)
(* its properties, a property left out being undefined / not given.        *)
(***************************************************************************)
NotGiven == [given |-> FALSE, entries |-> <<>>]

Given(entries) == [given |-> TRUE, entries |-> entries]

NoExtras ==
    [queryParams |-> NotGiven, fragment |-> UndefVal, replaceUrl |-> UndefVal,
     skipLocationChange |-> UndefVal, preserveFragment |-> UndefVal]

\* No options argument.
NoOptions ==
    [given |-> FALSE, params |-> NotGiven, queryParams |-> NotGiven,
     extrasGiven |-> FALSE, extras |-> NoExtras]

\* The promise Router.navigate returns.
PromiseVal == [kind |-> "promise", s |-> <<>>, items |-> <<>>]

\* options?.params ?? {}
paramsOf(options) ==
    IF options.given /\ options.params.given THEN options.params.entries ELSE <<>>

\* options?.queryParams
queryParamsOf(options) == IF options.given THEN options.queryParams ELSE NotGiven

\* options?.extras ?? {}
extrasOf(options) ==
    IF options.given /\ options.extrasGiven THEN options.extras ELSE NoExtras

\* A navigate that passes the query parameters alone.
navigationExtras_ExtrasDropped(extras, queryParams) ==
    [NoExtras EXCEPT !.queryParams = queryParams]

\* navigate: navigationExtras = {...extras}, then queryParams when truthy
\* (an object, even an empty one, is truthy).
navigationExtras(extras, queryParams) ==
    IF queryParams.given THEN [extras EXCEPT !.queryParams = queryParams]
    ELSE extras

\* A createUrl that leaves the query string out.
createUrl_PathOnly(path, options) == buildPath(path, paramsOf(options))

\* createUrl(path, options)
createUrl(path, options) == buildUrl(path, paramsOf(options), queryParamsOf(options))

\* serializePath(path, params): args[0] ?? {}
serializePath(path, params) ==
    buildPath(path, IF params.given THEN params.entries ELSE <<>>)

\* A call of Router.navigate(commands, extras).
RouterNavigate(commands, extras) == [commands |-> commands, extras |-> extras]

(***************************************************************************)
(* TypedRouterLinkDirective: its input signals and its href.               *)
(***************************************************************************)
\* The directive after construction: no input bound, href null.
NoLink ==
    [bound |-> FALSE, path |-> <<>>, linkParams |-> NotGiven,
     queryParams |-> NotGiven, fragment |-> UndefVal, target |-> UndefVal,
     replaceUrl |-> UndefVal, skipLocationChange |-> UndefVal,
     preserveFragment |-> UndefVal, href |-> NullVal]

\* No click yet.
NoEvent == [button |-> 0, modifier |-> "none", defaultPrevented |-> FALSE]

\* An updateHref that returns early on an empty path and leaves href alone.
updateHref_KeepsOld(l) ==
    IF l.path = <<>> THEN l.href
    ELSE LET url == buildPath(l.path, l.linkParams.entries)
             query == toString(collectQuery(<<>>, l.queryParams.entries))
             withQuery == IF l.queryParams.given /\ query # <<>>
                          THEN url \o <<"?">> \o query ELSE url
         IN  IF l.fragment.kind = "string" /\ l.fragment.s # <<>>
             THEN StrVal(withQuery \o <<"#">> \o l.fragment.s)
             ELSE StrVal(withQuery)

\* updateHref: the href it assigns.  The catch branch needs buildPath or
\* URLSearchParams to throw, which they do on no value of the model.
updateHref(l) ==
    IF l.path = <<>> THEN NullVal
    ELSE LET params == IF l.linkParams.given THEN l.linkParams.entries ELSE <<>>
             url == buildPath(l.path, params)
             query == toString(collectQuery(<<>>, l.queryParams.entries))
             withQuery == IF l.queryParams.given /\ query # <<>>
                          THEN url \o <<"?">> \o query ELSE url
         IN  IF l.fragment.kind = "string" /\ l.fragment.s # <<>>
             THEN StrVal(withQuery \o <<"#">> \o l.fragment.s)
             ELSE StrVal(withQuery)

\* onClick(event): what it returns, whether it called preventDefault, and
\* its calls of Router.navigate.  `this.target` is the input signal, a
\* function, so the first operand of the target test is always truthy.
onClick(l, event) ==
    IF event.button # 0 \/ event.modifier # "none"
    THEN [returns |-> TRUE, prevented |-> FALSE, navigated |-> <<>>]
    ELSE IF l.target # StrVal(<<"_", "s", "e", "l", "f">>)
    THEN [returns |-> TRUE, prevented |-> FALSE, navigated |-> <<>>]
    ELSE IF l.href.kind # "string" \/ l.href.s = <<>>
    THEN [returns |-> FALSE, prevented |-> TRUE, navigated |-> <<>>]
    ELSE LET params == IF l.linkParams.given THEN l.linkParams.entries ELSE <<>>
             url == buildPath(l.path, params)
             extras == [queryParams |-> l.queryParams, fragment |-> l.fragment,
                        replaceUrl |-> l.replaceUrl,
                        skipLocationChange |-> l.skipLocationChange,
                        preserveFragment |-> l.preserveFragment]
         IN  [returns |-> FALSE, prevented |-> TRUE,
              navigated |-> <<RouterNavigate(<<url>>, extras)>>]

(***************************************************************************)
(* TypedRouterService.isActive and TypedRouterLinkActiveDirective.         *)
(***************************************************************************)
\* The source text of the wildcard that stands for a parameter.
Wildcard == <<"[", "^", "/", "]", "+">>

\* path.replace(/:(\w+)/g, "[^/]+"): every match replaced.
RECURSIVE replaceParamTokens(_)
replaceParamTokens(str) ==
    IF str = <<>> THEN <<>>
    ELSE IF Head(str) = ":" /\ wordRun(Tail(str)) > 0
    THEN Wildcard \o replaceParamTokens(SubSeq(str, 2 + wordRun(Tail(str)), Len(str)))
    ELSE <<Head(str)>> \o replaceParamTokens(Tail(str))

\* new RegExp(source): the atoms of the pattern.  "[^/]+" is one atom (one or
\* more characters other than "/"), "." is the atom that matches any
\* character, every other character of the model's templates is a literal.
RECURSIVE compile(_)
compile(source) ==
    IF source = <<>> THEN <<>>
    ELSE IF startsWith(source, Wildcard)
    THEN <<"[^/]+">> \o compile(SubSeq(source, Len(Wildcard) + 1, Len(source)))
    ELSE <<Head(source)>> \o compile(Tail(source))

\* The atoms match str from its start, up to its end when toEnd.
RECURSIVE matchHere(_, _, _)
matchHere(atoms, str, toEnd) ==
    IF atoms = <<>> THEN (~toEnd \/ str = <<>>)
    ELSE IF Head(atoms) = "[^/]+"
    THEN \E n \in 1..Len(str) :
            /\ \A i \in 1..n : str[i] # "/"
            /\ matchHere(Tail(atoms), SubSeq(str, n + 1, Len(str)), toEnd)
    ELSE /\ str # <<>>
         /\ (Head(atoms) = "." \/ Head(atoms) = Head(str))
         /\ matchHere(Tail(atoms), Tail(str), toEnd)

\* new RegExp(exact ? `^${pattern}$` : `^${pattern}`).test(str)
regexTest(pattern, exact, str) == matchHere(compile(pattern), str, exact)

\* An isActive that strips the query string only.
isActive_KeepsFragment(path, exact, url) ==
    regexTest(<<"/">> \o replaceParamTokens(path), exact, splitFirst(url, "?"))

\* TypedRouterService.isActive(path, exact) with router.url = url
isActive(path, exact, url) ==
    LET pattern == <<"/">> \o replaceParamTokens(path)
        currentPath == splitFirst(splitFirst(url, "?"), "#")
    IN  regexTest(pattern, exact, currentPath)

\* A directive that strips the query string only.
nowActive_KeepsFragment(pathInput, exact, url) ==
    regexTest(replaceParamTokens(<<"/">> \o String(pathInput)), exact,
              splitFirst(url, "?"))

\* updateActiveState: nowActive (the early return is never taken: the input
\* signal typedLinkActiveFor is a function, never falsy).
nowActive(pathInput, exact, url) ==
    LET path == <<"/">> \o String(pathInput)
        pattern == replaceParamTokens(path)
        currentPath == splitFirst(splitFirst(url, "?"), "#")
    IN  regexTest(pattern, exact, currentPath)

\* updateClasses: the classes of activeClass, an array or a string split on
\* " ", added when isActive and removed otherwise.
classesOf(activeClass) ==
    IF activeClass.kind = "array" THEN Range(activeClass.items)
    ELSE Range(split(activeClass.s, " "))

updateClasses(classes, activeClass, active) ==
    IF active THEN classes \cup classesOf(activeClass)
    ELSE classes \ classesOf(activeClass)

(***************************************************************************)
(* route-inputs.ts and typed-activated-route-service.ts: the accessors of  *)
(* one path parameter.  A route snapshot is [params]; a thrown Error is    *)
(* the value ErrVal(message).                                              *)
(***************************************************************************)
ErrVal(message) == [kind |-> "error", s |-> message, items |-> <<>>]

\* ParamMap.get(name) of the Angular router: the value of the parameter, or
\* null when the snapshot has no such parameter.
paramMapGet(route, name) ==
    IF hasOwn(route.params, name) THEN get(route.params, name) ELSE NullVal

\* `Required route parameter "${String(param)}" is missing`
missingMessage(param) ==
    <<"R", "e", "q", "u", "i", "r", "e", "d", " ", "r", "o", "u", "t", "e", " ", "p", "a", "r", "a", "m", "e", "t", "e", "r", " ", "\"">>
        \o param \o <<"\"", " ", "i", "s", " ", "m", "i", "s", "s", "i", "n", "g">>

\* getTypedParam(route, param)
getTypedParam(route, param) == paramMapGet(route, param)

\* A getRequiredTypedParam that throws for every falsy value.
getRequiredTypedParam_ThrowsOnEmpty(route, param) ==
    LET value == paramMapGet(route, param)
    IN  IF value = NullVal \/ value = StrVal(<<>>) THEN ErrVal(missingMessage(param))
        ELSE value

\* getRequiredTypedParam(route, param)
getRequiredTypedParam(route, param) ==
    LET value == paramMapGet(route, param)
    IN  IF value = NullVal THEN ErrVal(missingMessage(param)) ELSE value

\* TypedActivatedRouteService.paramSnapshot(_path, paramName)
paramSnapshot(activatedRoute, paramName) == paramMapGet(activatedRoute, paramName)

\* TypedActivatedRouteService.paramSnapshotRequired(_path, paramName)
paramSnapshotRequired(activatedRoute, paramName) ==
    LET value == paramMapGet(activatedRoute, paramName)
    IN  IF value = NullVal THEN ErrVal(missingMessage(paramName)) ELSE value

(***************************************************************************)
(* route-types.ts and route-registry.ts: the types the compiler evaluates. *)
(* A string type is the string it names; never is the empty set.           *)
(***************************************************************************)
\* ExtractParamFromSegment<S>: the rest of S after ":", never for another S.
ExtractParamFromSegment(S) == IF S # <<>> /\ Head(S) = ":" THEN {Tail(S)} ELSE {}

\* ExtractPathParams<Path>: Segment is inferred up to the first "/".
RECURSIVE ExtractPathParams(_)
ExtractPathParams(Path) ==
    IF \E i \in 1..Len(Path) : Path[i] = "/"
    THEN LET Segment == splitFirst(Path, "/")
             Rest == SubSeq(Path, Len(Segment) + 2, Len(Path))
         IN  ExtractParamFromSegment(Segment) \cup ExtractPathParams(Rest)
    ELSE ExtractParamFromSegment(Path)

\* HasParams<Path>
HasParams(Path) == ExtractPathParams(Path) # {}

\* JoinPath<A, B>
JoinPath(A, B) == IF A = <<>> THEN B ELSE IF B = <<>> THEN A ELSE A \o <<"/">> \o B

\* The type never, and the type of one route, as the result of a lookup.
Never == [never |-> TRUE, route |-> [hasPath |-> FALSE, path |-> <<>>, children |-> <<>>]]
Found(route) == [never |-> FALSE, route |-> route]

\* A FindRoute that looks at the top-level routes only.
RECURSIVE FindRoute_TopLevelOnly(_, _)
FindRoute_TopLevelOnly(TRoutes, TargetPath) ==
    IF TRoutes = <<>> THEN Never
    ELSE IF Head(TRoutes).hasPath /\ TargetPath = Head(TRoutes).path
         THEN Found(Head(TRoutes))
         ELSE FindRoute_TopLevelOnly(Tail(TRoutes), TargetPath)

\* FindRoute<TRoutes, TargetPath>.  TargetPath extends P compares the target
\* with the route's own path; a route without a path is passed over with
\* its children.
RECURSIVE FindRoute(_, _)
FindRoute(TRoutes, TargetPath) ==
    IF TRoutes = <<>> THEN Never
    ELSE LET First == Head(TRoutes)
             Rest == Tail(TRoutes)
         IN  IF First.hasPath
             THEN IF TargetPath = First.path
                  THEN Found(First)
                  ELSE IF FindRoute(First.children, TargetPath) = Never
                       THEN FindRoute(Rest, TargetPath)
                       ELSE FindRoute(First.children, TargetPath)
             ELSE FindRoute(Rest, TargetPath)

(***************************************************************************)
(* route-registry.ts: registerRoutes.  A route is [hasPath, path,          *)
(* children]; children is <<>> both for no children and for an empty list  *)
(* (the loop over an empty list does nothing).                             *)
(***************************************************************************)
\* A replace(/\/+/g, "/") that leaves the string as it is.
collapseSlashes_Skipped(str) == str

\* str.replace(/\/+/g, "/")
RECURSIVE collapseSlashes(_)
collapseSlashes(str) ==
    IF str = <<>> THEN <<>>
    ELSE IF Head(str) = "/" /\ Len(str) > 1 /\ str[2] = "/"
    THEN collapseSlashes(Tail(str))
    ELSE <<Head(str)>> \o collapseSlashes(Tail(str))

\* str.replace(/^\//, "")
stripLeadingSlash(str) == IF startsWith(str, <<"/">>) THEN Tail(str) ELSE str

\* result[key] = value
put(result, key, value) ==
    [k \in DOMAIN result \cup {key} |-> IF k = key THEN value ELSE result[k]]

\* A buildPathsMap that hands its own prefix, not fullPath, to the children.
RECURSIVE buildPathsMap_ParentPrefixLost(_, _, _)
buildPathsMap_ParentPrefixLost(routes, prefix, result) ==
    IF routes = <<>> THEN result
    ELSE LET route == Head(routes)
             fullPath == IF prefix # <<>> THEN prefix \o <<"/">> \o route.path
                         ELSE route.path
             normalizedPath == stripLeadingSlash(collapseSlashes(fullPath))
             key == IF normalizedPath # <<>> THEN normalizedPath ELSE <<"/">>
             registered == IF normalizedPath # <<>> \/ prefix = <<>>
                           THEN put(result, key, key) ELSE result
         IN  IF route.hasPath
             THEN buildPathsMap_ParentPrefixLost(Tail(routes), prefix,
                      buildPathsMap_ParentPrefixLost(route.children, prefix, registered))
             ELSE buildPathsMap_ParentPrefixLost(Tail(routes), prefix, result)

\* A buildPathsMap that hands the full path of a route to its next sibling.
RECURSIVE buildPathsMap_PrefixLeaks(_, _, _)
buildPathsMap_PrefixLeaks(routes, prefix, result) ==
    IF routes = <<>> THEN result
    ELSE LET route == Head(routes)
             fullPath == IF prefix # <<>> THEN prefix \o <<"/">> \o route.path
                         ELSE route.path
             normalizedPath == stripLeadingSlash(collapseSlashes(fullPath))
             key == IF normalizedPath # <<>> THEN normalizedPath ELSE <<"/">>
             registered == IF normalizedPath # <<>> \/ prefix = <<>>
                           THEN put(result, key, key) ELSE result
         IN  IF route.hasPath
             THEN buildPathsMap_PrefixLeaks(Tail(routes), fullPath,
                      buildPathsMap_PrefixLeaks(route.children, fullPath, registered))
             ELSE buildPathsMap_PrefixLeaks(Tail(routes), prefix, result)

\* A buildPathsMap that registers the sentinel under any prefix.
RECURSIVE buildPathsMap_SentinelAnywhere(_, _, _)
buildPathsMap_SentinelAnywhere(routes, prefix, result) ==
    IF routes = <<>> THEN result
    ELSE LET route == Head(routes)
             fullPath == IF prefix # <<>> THEN prefix \o <<"/">> \o route.path
                         ELSE route.path
             normalizedPath == stripLeadingSlash(collapseSlashes(fullPath))
             key == IF normalizedPath # <<>> THEN normalizedPath ELSE <<"/">>
             registered == put(result, key, key)
         IN  IF route.hasPath
             THEN buildPathsMap_SentinelAnywhere(Tail(routes), prefix,
                      buildPathsMap_SentinelAnywhere(route.children, fullPath, registered))
             ELSE buildPathsMap_SentinelAnywhere(Tail(routes), prefix, result)

\* buildPathsMap(routes, prefix, result)
RECURSIVE buildPathsMap(_, _, _)
buildPathsMap(routes, prefix, result) ==
    IF routes = <<>> THEN result
    ELSE LET route == Head(routes)
             fullPath == IF prefix # <<>> THEN prefix \o <<"/">> \o route.path
                         ELSE route.path
             normalizedPath == stripLeadingSlash(collapseSlashes(fullPath))
             key == IF normalizedPath # <<>> THEN normalizedPath ELSE <<"/">>
             registered == IF normalizedPath # <<>> \/ prefix = <<>>
                           THEN put(result, key, key) ELSE result
         IN  IF route.hasPath
             THEN buildPathsMap(Tail(routes), prefix,
                      buildPathsMap(route.children, fullPath, registered))
             ELSE buildPathsMap(Tail(routes), prefix, result)

\* A registerRoutes that keeps the top-level routes without their children.
registerRoutes_ChildrenDropped(routes) ==
    [routes |-> [i \in 1..Len(routes) |-> [routes[i] EXCEPT !.children = <<>>]],
     paths |-> buildPathsMap(routes, <<>>, <<>>)]

\* registerRoutes(routes); _params is a compile-time helper that returns {}.
registerRoutes(routes) ==
    [routes |-> routes, paths |-> buildPathsMap(routes, <<>>, <<>>)]

\* registerRoutes with the index objects made explicit: `indexes` is the
\* list of the objects allocated so far, a reference is a position in it.
\* A buildPathsMap whose default result is one object shared by all calls.
freshIndex_Shared(objects) == 1

\* result = {}: the default parameter of buildPathsMap is evaluated at every
\* call that leaves it out, so each registerRoutes call gets a new object.
freshIndex(objects) == Len(objects) + 1

\* The objects after registerRoutes(routes) wrote its keys into the object
\* at ref (a new, empty object unless ref is one of the objects).
written(objects, ref, routes) ==
    IF ref \in DOMAIN objects
    THEN [objects EXCEPT ![ref] = buildPathsMap(routes, <<>>, objects[ref])]
    ELSE Append(objects, buildPathsMap(routes, <<>>, <<>>))

(***************************************************************************)
(* The inputs the calls are drawn from.                                    *)
(***************************************************************************)
Segments ==
    { <<>>, <<"u">>, <<":", "a">>, <<":", "a", "b">>, <<":">>,
      <<":", "a", ".", "b">> }

Templates == {join(ss, <<"/">>) : ss \in SeqsUpTo(Segments, MaxSegs) \ {<<>>}}

\* Templates with a ":" inside a segment.
ColonTemplates == { <<"u", ":", "a">>, <<"u", "/", "u", ":", "a">> }

ParamKeys == { <<>>, <<"a">>, <<"a", "b">> }

ParamValues == { StrVal(<<"x", "/">>), StrVal(<<>>), NullVal, UndefVal }

ParamMaps == Objects(ParamKeys, ParamValues, MaxParams)

\* The templates and the router URLs of the isActive calls.
ActiveSegments == { <<"u">>, <<":", "a">>, <<"a", ".", "b">> }

ActiveTemplates ==
    {join(ss, <<"/">>) : ss \in SeqsUpTo(ActiveSegments, MaxSegs) \ {<<>>}}

UrlSegments == { <<"u">>, <<"x">>, <<"a", "x", "b">> }

UrlSuffixes ==
    { <<>>, <<"?", "q">>, <<"#", "f">>, <<"?", "q", "#", "f">>,
      <<"#", "f", "?", "q">> }

RouterUrls ==
    {<<"/">> \o join(ss, <<"/">>) \o suffix :
        ss \in SeqsUpTo(UrlSegments, MaxUrlSegs), suffix \in UrlSuffixes}

PathInputs == {StrVal(t) : t \in ActiveTemplates} \cup {UndefVal}

\* Templates whose built path is looked up again: a parameter name with a
\* "." in it, and a leading slash.
RoundTripTemplates == { <<":", "a", ".", "b">>, <<"/", "u">> }

\* The parameter maps of the round trip: non-empty string values.
RoundTripParams ==
    { <<>>,
      <<Entry(<<"a">>, StrVal(<<"x">>))>>,
      <<Entry(<<"a", ".", "b">>, StrVal(<<"x">>))>>,
      <<Entry(<<"a">>, StrVal(<<"u">>)), Entry(<<"a", ".", "b">>, StrVal(<<"u">>))>> }

ClassInputs == { StrVal(<<"o", "n", " ", "b", "i", "g">>), ArrVal(<< <<"o", "n">> >>) }

\* The route trees: every list of routes with at most MaxNodes routes in all.
NodePaths == { <<>>, <<"a">>, <<":", "b">>, <<"/", "a">>, <<"/">> }

Route(hasPath, path, children) ==
    [hasPath |-> hasPath, path |-> path, children |-> children]

RECURSIVE RouteListsOf(_)
RouteListsOf(n) ==
    IF n = 0 THEN {<<>>}
    ELSE UNION {
            {<<node>> \o rest :
                node \in {Route(TRUE, p, c) : p \in NodePaths, c \in RouteListsOf(k)}
                            \cup {Route(FALSE, <<>>, c) : c \in RouteListsOf(k)},
                rest \in RouteListsOf(n - 1 - k)} : k \in 0..(n - 1)}

RouteTrees == UNION {RouteListsOf(n) : n \in 0..MaxNodes}

\* The children lists of those trees, the prefixes they are reached with and
\* the maps built before them.
ChildLists == UNION {RouteListsOf(n) : n \in 0..(MaxNodes - 1)}

Prefixes == { <<>>, <<"/">>, <<"a">> }

\* The paths looked up in a tree: own paths and full paths.
TargetPaths == { <<>>, <<"a">>, <<":", "b">>, <<"a", "/", ":", "b">> }

Results == { <<>>, [k \in {<<"/">>} |-> k] }

\* The snapshots of an activated route and the parameter names asked for.
SnapshotKeys == { <<>>, <<"a">>, <<"a", "b">> }

SnapshotValues == { StrVal(<<"x">>), StrVal(<<>>) }

Snapshots == {[params |-> o] : o \in Objects(SnapshotKeys, SnapshotValues, MaxParams)}

\* The objects an application makes once and passes to its calls.
HeldTemplates == { <<"u">>, <<":", "a">>, <<":", "a", "/", "u">> }

HeldParams == { <<>>, <<Entry(<<"a">>, StrVal(<<"x", "/">>))>> }

HeldQueries ==
    { [given |-> FALSE, entries |-> <<>>],
      [given |-> TRUE,
       entries |-> <<Entry(<<"t">>, ArrVal(<< <<"a">>, <<"b">> >>)),
                     Entry(<<"g">>, NullVal)>>] }

QueryKeys == { <<"t">>, <<"g">> }

QueryValues ==
    { NullVal, UndefVal, StrVal(<<>>), StrVal(<<"p", " ">>), TrueVal,
      ArrVal(<<>>), ArrVal(<< <<"a">>, <<"b">> >>) }

QueryArgs ==
    {[given |-> FALSE, entries |-> <<>>]}
        \cup {[given |-> TRUE, entries |-> o] :
                o \in Objects(QueryKeys, QueryValues, MaxQuery)}

\* The arguments of the TypedRouterService calls.
NavTemplates == { <<"u">>, <<":", "a">>, <<":", "a", "/", "u">> }

NavParams == { NotGiven, Given(<<Entry(<<"a">>, StrVal(<<"x", "/">>))>>) }

NavQueries ==
    { NotGiven, Given(<<>>), Given(<<Entry(<<"t">>, StrVal(<<"p", " ">>))>>) }

NavExtras ==
    { [NoExtras EXCEPT !.replaceUrl = TrueVal],
      [NoExtras EXCEPT !.replaceUrl = TrueVal,
                       !.queryParams = Given(<<Entry(<<"e">>, StrVal(<<"x">>))>>)] }

NavOptions ==
    {NoOptions}
        \cup {[given |-> TRUE, params |-> p, queryParams |-> q,
                extrasGiven |-> FALSE, extras |-> NoExtras] :
                    p \in NavParams, q \in NavQueries}
        \cup {[given |-> TRUE, params |-> p, queryParams |-> q,
                extrasGiven |-> TRUE, extras |-> e] :
                    p \in NavParams, q \in NavQueries, e \in NavExtras}

\* The inputs of the link directive and the clicks on it.
LinkPaths == { <<>>, <<"u">>, <<":", "a">> }

LinkQueries ==
    { NotGiven, Given(<<>>),
      Given(<<Entry(<<"t">>, ArrVal(<< <<"a">>, <<"b">> >>)),
              Entry(<<"g">>, NullVal)>>) }

LinkFragments == { UndefVal, StrVal(<<>>), StrVal(<<"f">>) }

LinkTargets ==
    { UndefVal, StrVal(<<"_", "s", "e", "l", "f">>),
      StrVal(<<"_", "b", "l", "a", "n", "k">>) }

LinkFlags == { UndefVal, TrueVal }

Events ==
    [button : {0, 1}, modifier : {"none", "ctrl", "meta", "shift", "alt"},
     defaultPrevented : {FALSE}]

\* The callers that share the module, and the trees they register.
Callers == {"A", "B"}

\* The buildPath calls of the callers.
CallerTemplates == { <<"u">>, <<":", "a">> }

CallerParams == { <<Entry(<<"a">>, StrVal(<<"x", "/">>))>> }

CallerTrees ==
    { <<Route(TRUE, <<"a">>, <<>>)>>,
      <<Route(TRUE, <<"a">>, <<Route(TRUE, <<":", "b">>, <<>>)>>)>>,
      <<Route(TRUE, <<":", "b">>, <<>>), Route(TRUE, <<>>, <<>>)>> }

\* A caller that has not called yet; paths is a reference, 0 for none.
NoCaller ==
    [called |-> FALSE, routes |-> <<>>,
     registry |-> [routes |-> <<>>, paths |-> 0],
     path |-> <<>>, params |-> <<>>, built |-> <<>>]

(***************************************************************************)
(* The calls.                                                              *)
(***************************************************************************)
\* No call: every argument at its default.
NoCall ==
    [op |-> "none", path |-> <<>>, params |-> <<>>,
     queryParams |-> [given |-> FALSE, entries |-> <<>>], exact |-> FALSE,
     routes |-> <<>>, prefix |-> <<>>, result |-> <<>>, paramName |-> <<>>,
     typedLinkActiveFor |-> UndefVal, activeClass |-> UndefVal,
     options |-> NoOptions, event |-> NoEvent]

\* The application has made no object yet.
NoObjects ==
    [made |-> FALSE, routes |-> <<>>, params |-> <<>>,
     queryParams |-> [given |-> FALSE, entries |-> <<>>],
     registered |-> FALSE, registry |-> [routes |-> <<>>, paths |-> <<>>]]

Init ==
    /\ pc = "idle"
    /\ call = NoCall
    /\ ret = UndefVal
    /\ routerUrl = <<"/">>
    /\ dirIsActive = FALSE
    /\ hostClasses = {}
    /\ snapshot = [params |-> <<>>]
    /\ held = NoObjects
    /\ navigations = <<>>
    /\ link = NoLink
    /\ indexes = <<>>
    /\ callers = [c \in Callers |-> NoCaller]

BuildPath ==
    /\ pc = "idle"
    /\ \E path \in Templates, params \in ParamMaps :
        /\ call' = [NoCall EXCEPT !.op = "buildPath", !.path = path, !.params = params]
        /\ ret' = StrVal(buildPath(path, params))
    /\ pc' = "done"
    /\ UNCHANGED <<routerUrl, dirIsActive, hostClasses, snapshot, held,
                 navigations, link, indexes, callers>>

\* The path parameters of a buildUrl call: at most one entry, a string as
\* PathParams<Path> types it.
BuildUrl ==
    /\ pc = "idle"
    /\ \E path \in Templates,
          params \in {p \in ParamMaps :
                        Len(p) <= 1 /\ \A i \in 1..Len(p) : p[i].value.kind = "string"},
          queryParams \in QueryArgs :
        /\ call' = [NoCall EXCEPT !.op = "buildUrl", !.path = path,
                                  !.params = params, !.queryParams = queryParams]
        /\ ret' = StrVal(buildUrl(path, params, queryParams))
    /\ pc' = "done"
    /\ UNCHANGED <<routerUrl, dirIsActive, hostClasses, snapshot, held,
                 navigations, link, indexes, callers>>

ValidateParams ==
    /\ pc = "idle"
    /\ \E path \in Templates, params \in ParamMaps :
        /\ call' = [NoCall EXCEPT !.op = "validateParams", !.path = path, !.params = params]
        /\ ret' = BoolVal(validateParams(path, params))
    /\ pc' = "done"
    /\ UNCHANGED <<routerUrl, dirIsActive, hostClasses, snapshot, held,
                 navigations, link, indexes, callers>>

GetParamNames ==
    /\ pc = "idle"
    /\ \E path \in Templates \cup ColonTemplates :
        /\ call' = [NoCall EXCEPT !.op = "getParamNames", !.path = path]
        /\ ret' = ArrVal(getParamNames(path))
    /\ pc' = "done"
    /\ UNCHANGED <<routerUrl, dirIsActive, hostClasses, snapshot, held,
                 navigations, link, indexes, callers>>

\* The caller takes the returned value and is ready for its next call.
Return ==
    /\ pc = "done"
    /\ pc' = "idle"
    /\ call' = NoCall
    /\ ret' = UndefVal
    /\ UNCHANGED <<routerUrl, dirIsActive, hostClasses, snapshot, held,
                 navigations, link, indexes, callers>>

Next ==
    \/ BuildPath
    \/ BuildUrl
    \/ ValidateParams
    \/ GetParamNames
    \/ Return

Spec == Init /\ [][Next]_vars

\* The underlying router navigates: Router.url changes.
Navigate ==
    /\ pc = "idle"
    /\ routerUrl' \in RouterUrls \ {routerUrl}
    /\ UNCHANGED <<pc, call, ret, dirIsActive, hostClasses, snapshot, held,
                 navigations, link, indexes, callers>>

IsActive ==
    /\ pc = "idle"
    /\ \E path \in ActiveTemplates \cup RoundTripTemplates, exact \in BOOLEAN :
        /\ call' = [NoCall EXCEPT !.op = "isActive", !.path = path, !.exact = exact]
        /\ ret' = BoolVal(isActive(path, exact, routerUrl))
    /\ pc' = "done"
    /\ UNCHANGED <<routerUrl, dirIsActive, hostClasses, snapshot, held,
                 navigations, link, indexes, callers>>

\* Angular sets the directive's inputs and calls ngOnChanges.
NgOnChanges ==
    /\ pc = "idle"
    /\ \E typedLinkActiveFor \in PathInputs, exact \in BOOLEAN,
          activeClass \in ClassInputs :
        /\ call' = [NoCall EXCEPT !.op = "ngOnChanges",
                                  !.typedLinkActiveFor = typedLinkActiveFor,
                                  !.exact = exact, !.activeClass = activeClass]
        /\ LET now == nowActive(typedLinkActiveFor, exact, routerUrl)
           IN  IF now # dirIsActive
               THEN /\ dirIsActive' = now
                    /\ hostClasses' = updateClasses(hostClasses, activeClass, now)
               ELSE UNCHANGED <<dirIsActive, hostClasses>>
    /\ ret' = UndefVal
    /\ pc' = "done"
    /\ UNCHANGED <<routerUrl, snapshot, held,
                 navigations, link, indexes, callers>>

NextRouter ==
    \/ Navigate
    \/ IsActive
    \/ NgOnChanges
    \/ Return

SpecRouter == Init /\ [][NextRouter]_vars

\* The router activates a route: the snapshot holds its parameters.
Activate ==
    /\ pc = "idle"
    /\ snapshot' \in Snapshots
    /\ UNCHANGED <<pc, call, ret, routerUrl, dirIsActive, hostClasses, held,
                 navigations, link, indexes, callers>>

GetTypedParam ==
    /\ pc = "idle"
    /\ \E param \in SnapshotKeys :
        /\ call' = [NoCall EXCEPT !.op = "getTypedParam", !.paramName = param]
        /\ ret' = getTypedParam(snapshot, param)
    /\ pc' = "done"
    /\ UNCHANGED <<routerUrl, dirIsActive, hostClasses, snapshot, held,
                 navigations, link, indexes, callers>>

GetRequiredTypedParam ==
    /\ pc = "idle"
    /\ \E param \in SnapshotKeys :
        /\ call' = [NoCall EXCEPT !.op = "getRequiredTypedParam", !.paramName = param]
        /\ ret' = getRequiredTypedParam(snapshot, param)
    /\ pc' = "done"
    /\ UNCHANGED <<routerUrl, dirIsActive, hostClasses, snapshot, held,
                 navigations, link, indexes, callers>>

ParamSnapshot ==
    /\ pc = "idle"
    /\ \E paramName \in SnapshotKeys :
        /\ call' = [NoCall EXCEPT !.op = "paramSnapshot", !.paramName = paramName]
        /\ ret' = paramSnapshot(snapshot, paramName)
    /\ pc' = "done"
    /\ UNCHANGED <<routerUrl, dirIsActive, hostClasses, snapshot, held,
                 navigations, link, indexes, callers>>

ParamSnapshotRequired ==
    /\ pc = "idle"
    /\ \E paramName \in SnapshotKeys :
        /\ call' = [NoCall EXCEPT !.op = "paramSnapshotRequired", !.paramName = paramName]
        /\ ret' = paramSnapshotRequired(snapshot, paramName)
    /\ pc' = "done"
    /\ UNCHANGED <<routerUrl, dirIsActive, hostClasses, snapshot, held,
                 navigations, link, indexes, callers>>

NextRoute ==
    \/ Activate
    \/ GetTypedParam
    \/ GetRequiredTypedParam
    \/ ParamSnapshot
    \/ ParamSnapshotRequired
    \/ Return

SpecRoute == Init /\ [][NextRoute]_vars

\* The application makes its route tree, a params object and a query object.
Make ==
    /\ pc = "idle"
    /\ ~held.made
    /\ \E routes \in ChildLists, params \in HeldParams, queryParams \in HeldQueries :
        held' = [NoObjects EXCEPT !.made = TRUE, !.routes = routes,
                                  !.params = params, !.queryParams = queryParams]
    /\ UNCHANGED <<pc, call, ret, routerUrl, dirIsActive, hostClasses, snapshot,
                 navigations, link, indexes, callers>>

\* const appRoutes = registerRoutes(routes): no statement of registerRoutes
\* or buildPathsMap assigns to routes or to a route.
HeldRegisterRoutes ==
    /\ pc = "idle"
    /\ held.made
    /\ call' = [NoCall EXCEPT !.op = "registerRoutes", !.routes = held.routes]
    /\ ret' = UndefVal
    /\ held' = [held EXCEPT !.registered = TRUE, !.registry = registerRoutes(held.routes)]
    /\ pc' = "done"
    /\ UNCHANGED <<routerUrl, dirIsActive, hostClasses, snapshot,
                 navigations, link, indexes, callers>>

\* buildPath, buildUrl and validateParams on the held objects: none of them
\* assigns to params or queryParams (buildUrl fills its own URLSearchParams).
HeldBuildPath ==
    /\ pc = "idle"
    /\ held.made
    /\ \E path \in HeldTemplates :
        /\ call' = [NoCall EXCEPT !.op = "buildPath", !.path = path,
                                  !.params = held.params]
        /\ ret' = StrVal(buildPath(path, held.params))
    /\ pc' = "done"
    /\ UNCHANGED <<routerUrl, dirIsActive, hostClasses, snapshot, held,
                 navigations, link, indexes, callers>>

HeldBuildUrl ==
    /\ pc = "idle"
    /\ held.made
    /\ \E path \in HeldTemplates :
        /\ call' = [NoCall EXCEPT !.op = "buildUrl", !.path = path,
                                  !.params = held.params,
                                  !.queryParams = held.queryParams]
        /\ ret' = StrVal(buildUrl(path, held.params, held.queryParams))
    /\ pc' = "done"
    /\ UNCHANGED <<routerUrl, dirIsActive, hostClasses, snapshot, held,
                 navigations, link, indexes, callers>>

HeldValidateParams ==
    /\ pc = "idle"
    /\ held.made
    /\ \E path \in HeldTemplates :
        /\ call' = [NoCall EXCEPT !.op = "validateParams", !.path = path,
                                  !.params = held.params]
        /\ ret' = BoolVal(validateParams(path, held.params))
    /\ pc' = "done"
    /\ UNCHANGED <<routerUrl, dirIsActive, hostClasses, snapshot, held,
                 navigations, link, indexes, callers>>

HeldIsActive ==
    /\ pc = "idle"
    /\ held.made
    /\ \E path \in HeldTemplates, exact \in BOOLEAN :
        /\ call' = [NoCall EXCEPT !.op = "isActive", !.path = path, !.exact = exact]
        /\ ret' = BoolVal(isActive(path, exact, routerUrl))
    /\ pc' = "done"
    /\ UNCHANGED <<routerUrl, dirIsActive, hostClasses, snapshot, held,
                 navigations, link, indexes, callers>>

NextHeld ==
    \/ Make
    \/ HeldRegisterRoutes
    \/ HeldBuildPath
    \/ HeldBuildUrl
    \/ HeldValidateParams
    \/ HeldIsActive
    \/ Return

SpecHeld == Init /\ [][NextHeld]_vars

RegisterRoutes ==
    /\ pc = "idle"
    /\ \E routes \in RouteTrees :
        /\ call' = [NoCall EXCEPT !.op = "registerRoutes", !.routes = routes]
        /\ ret' = registerRoutes(routes)
    /\ pc' = "done"
    /\ UNCHANGED <<routerUrl, dirIsActive, hostClasses, snapshot, held,
                 navigations, link, indexes, callers>>

\* buildPathsMap calls itself on the children of a route, with the route's
\* full path as the prefix and the map built so far as the result.
BuildPathsMap ==
    /\ pc = "idle"
    /\ \E routes \in ChildLists, prefix \in Prefixes, result \in Results :
        /\ call' = [NoCall EXCEPT !.op = "buildPathsMap", !.routes = routes,
                                  !.prefix = prefix, !.result = result]
        /\ ret' = [routes |-> routes, paths |-> buildPathsMap(routes, prefix, result)]
    /\ pc' = "done"
    /\ UNCHANGED <<routerUrl, dirIsActive, hostClasses, snapshot, held,
                 navigations, link, indexes, callers>>

\* The compiler evaluates FindRoute<TRoutes, TargetPath>.
FindRouteType ==
    /\ pc = "idle"
    /\ \E routes \in RouteTrees, target \in TargetPaths :
        /\ call' = [NoCall EXCEPT !.op = "FindRoute", !.routes = routes, !.path = target]
        /\ ret' = FindRoute(routes, target)
    /\ pc' = "done"
    /\ UNCHANGED <<routerUrl, dirIsActive, hostClasses, snapshot, held,
                 navigations, link, indexes, callers>>

NextRegistry ==
    \/ RegisterRoutes
    \/ FindRouteType
    \/ BuildPathsMap
    \/ Return

SpecRegistry == Init /\ [][NextRegistry]_vars

\* TypedRouterService.navigate(path, options)
TypedNavigate ==
    /\ pc = "idle"
    /\ \E path \in NavTemplates, options \in NavOptions :
        LET url == buildPath(path, paramsOf(options))
        IN  /\ call' = [NoCall EXCEPT !.op = "navigate", !.path = path,
                                      !.options = options]
            /\ navigations' =
                  <<RouterNavigate(<<url>>,
                        navigationExtras(extrasOf(options), queryParamsOf(options)))>>
            /\ ret' = PromiseVal
    /\ pc' = "done"
    /\ UNCHANGED <<routerUrl, dirIsActive, hostClasses, snapshot, held,
                 link, indexes, callers>>

\* TypedRouterService.createUrl(path, options)
CreateUrl ==
    /\ pc = "idle"
    /\ \E path \in NavTemplates, options \in NavOptions :
        /\ call' = [NoCall EXCEPT !.op = "createUrl", !.path = path,
                                  !.options = options]
        /\ ret' = StrVal(createUrl(path, options))
    /\ navigations' = <<>>
    /\ pc' = "done"
    /\ UNCHANGED <<routerUrl, dirIsActive, hostClasses, snapshot, held,
                 link, indexes, callers>>

\* TypedRouterService.serializePath(path, params?)
SerializePath ==
    /\ pc = "idle"
    /\ \E path \in NavTemplates, params \in NavParams :
        /\ call' = [NoCall EXCEPT !.op = "serializePath", !.path = path,
                        !.options = [NoOptions EXCEPT !.params = params]]
        /\ ret' = StrVal(serializePath(path, params))
    /\ navigations' = <<>>
    /\ pc' = "done"
    /\ UNCHANGED <<routerUrl, dirIsActive, hostClasses, snapshot, held,
                 link, indexes, callers>>

NextNav ==
    \/ TypedNavigate
    \/ CreateUrl
    \/ SerializePath
    \/ Return

SpecNav == Init /\ [][NextNav]_vars

\* Angular binds the inputs of the link directive and calls ngOnChanges.
LinkNgOnChanges ==
    /\ pc = "idle"
    /\ \E path \in LinkPaths, linkParams \in NavParams, queryParams \in LinkQueries,
          fragment \in LinkFragments, target \in LinkTargets,
          replaceUrl \in LinkFlags :
        LET bound == [NoLink EXCEPT !.bound = TRUE, !.path = path,
                                    !.linkParams = linkParams,
                                    !.queryParams = queryParams,
                                    !.fragment = fragment, !.target = target,
                                    !.replaceUrl = replaceUrl,
                                    !.href = link.href]
        IN  link' = [bound EXCEPT !.href = updateHref(bound)]
    /\ call' = [NoCall EXCEPT !.op = "link.ngOnChanges"]
    /\ ret' = UndefVal
    /\ navigations' = <<>>
    /\ pc' = "done"
    /\ UNCHANGED <<routerUrl, dirIsActive, hostClasses, snapshot, held,
                 indexes, callers>>

\* A click on the host element of a bound link: @HostListener onClick.
OnClick ==
    /\ pc = "idle"
    /\ link.bound
    /\ \E event \in Events :
        LET outcome == onClick(link, event)
        IN  /\ call' = [NoCall EXCEPT !.op = "onClick",
                            !.event = [event EXCEPT !.defaultPrevented =
                                                        outcome.prevented]]
            /\ ret' = BoolVal(outcome.returns)
            /\ navigations' = outcome.navigated
    /\ pc' = "done"
    /\ UNCHANGED <<routerUrl, dirIsActive, hostClasses, snapshot, held,
                 link, indexes, callers>>

NextLink ==
    \/ LinkNgOnChanges
    \/ OnClick
    \/ Return

SpecLink == Init /\ [][NextLink]_vars

\* A caller calls registerRoutes.  The call has no await: it runs to its
\* end before any other caller's code runs.
CallerRegisterRoutes(c) ==
    /\ Len(indexes) < MaxIndexes
    /\ \E routes \in CallerTrees :
        LET ref == freshIndex(indexes)
        IN  /\ indexes' = written(indexes, ref, routes)
            /\ callers' = [callers EXCEPT ![c].called = TRUE,
                                          ![c].routes = routes,
                                          ![c].registry =
                                              [routes |-> routes, paths |-> ref]]
    /\ UNCHANGED <<pc, call, ret, routerUrl, dirIsActive, hostClasses, snapshot,
                 held, navigations, link>>

\* A caller calls buildPath and keeps what it returned.
CallerBuildPath(c) ==
    /\ \E path \in CallerTemplates, params \in CallerParams :
        callers' = [callers EXCEPT ![c].path = path, ![c].params = params,
                                      ![c].built = buildPath(path, params)]
    /\ UNCHANGED <<pc, call, ret, routerUrl, dirIsActive, hostClasses, snapshot,
                 held, navigations, link, indexes>>

NextCallers ==
    \/ \E c \in Callers : CallerRegisterRoutes(c)
    \/ \E c \in Callers : CallerBuildPath(c)

SpecCallers == Init /\ [][NextCallers]_vars

(***************************************************************************)
(* What the claims speak of.                                               *)
(***************************************************************************)
\* extractParameterNames of the specification: the template split on "/",
\* the segments that start with ":" kept, each without its ":".
extractParameterNames(template) ==
    LET IsParam(seg) == seg # <<>> /\ Head(seg) = ":"
        kept == SelectSeq(split(template, "/"), IsParam)
    IN  [i \in 1..Len(kept) |-> Tail(kept[i])]

\* The path holds the parameter token ":name" as one of its segments.
HasToken(path, name) == \E seg \in Range(split(path, "/")) : seg = <<":">> \o name

\* The object has a non-null, non-undefined entry for the name.
Provides(params, name) ==
    \E i \in 1..Len(params) :
        params[i].key = name /\ params[i].value.kind \notin {"null", "undefined"}

Keys(params) == {params[i].key : i \in 1..Len(params)}

Returned(op) == pc = "done" /\ call.op = op

\* Every ":" segment of the template has a name of at least one character,
\* and so has every key of params.
WellNamed == /\ <<>> \notin Range(extractParameterNames(call.path))
             /\ <<>> \notin Keys(call.params)

\* C1: when params has an entry for every parameter name of the template,
\* the path buildPath returns holds no ":name" token for any name in params
\* (stated for names of at least one character).
C1_NoTokenLeft ==
    (Returned("buildPath") /\ WellNamed
        /\ Range(extractParameterNames(call.path)) \subseteq Keys(call.params))
    => \A name \in Keys(call.params) : ~HasToken(ret.s, name)

\* C2: getParamNames returns the names of the segments that start with ":",
\* in template order (stated for names of at least one character).
C2_SegmentNames ==
    (Returned("getParamNames") /\ WellNamed) => ret.items = extractParameterNames(call.path)

\* C3: validateParams returns true exactly when params has a non-null,
\* non-undefined entry for every segment-based parameter name (stated for
\* names of at least one character).
C3_ValidIffProvided ==
    (Returned("validateParams") /\ WellNamed)
    => (ret = TrueVal <=> \A name \in Range(extractParameterNames(call.path)) :
                    Provides(call.params, name))

\* The string buildPath holds after its substitution loop.
Substituted == LET steps == substituteSteps(call.path, call.params)
               IN  steps[Len(steps)]

FirstOccurrenceReplaced(before, after, pat, rep) ==
    LET hits == {i \in 1..(Len(before) - Len(pat) + 1) :
                    SubSeq(before, i, i + Len(pat) - 1) = pat}
    IN  IF hits = {} THEN after = before
        ELSE after = SubSeq(before, 1, Min(hits) - 1) \o rep
                        \o SubSeq(before, Min(hits) + Len(pat), Len(before))

\* C5: buildPath goes through the entries of params in their iteration
\* order; the k-th step replaces the first occurrence of ":key" of the k-th
\* entry in the current string by the percent-encoded string form of its
\* value and leaves every later occurrence as it is.
C5_FirstOccurrenceInEntryOrder ==
    Returned("buildPath")
    => LET steps == substituteSteps(call.path, call.params)
       IN  /\ Len(steps) = Len(call.params) + 1
           /\ steps[1] = call.path
           /\ \A k \in 1..Len(call.params) :
                FirstOccurrenceReplaced(
                    steps[k], steps[k + 1], <<":">> \o call.params[k].key,
                    encodeURIComponent(String(call.params[k].value)))
           /\ ret.s = ensureLeadingSlash(steps[Len(steps)])

\* Entry order decides, against template order (":a" is replaced inside
\* ":ab" first), and the second ":a" of the template is left.
C5_Witness ==
    /\ Returned("buildPath")
    /\ call.path = <<":", "a", "b", "/", ":", "a">>
    /\ Len(call.params) = 2
    /\ call.params[1] = Entry(<<"a">>, StrVal(<<"x", "/">>))
    /\ call.params[2].key = <<"a", "b">>
    /\ ret.s = <<"/", "x", "%", "2", "F", "b", "/", ":", "a">>

\* C6: a declared parameter that params omits keeps its ":name" token in the
\* returned path, and every declared parameter that params supplies is
\* substituted (stated for names of at least one character).
C6_OmittedTokenKept ==
    (Returned("buildPath") /\ WellNamed)
    => \A name \in Range(extractParameterNames(call.path)) :
          IF name \in Keys(call.params)
          THEN ~HasToken(ret.s, name)
          ELSE HasToken(ret.s, name)

\* The [name, value] pairs the entries of a query object stand for: none for
\* a null or undefined value, one per element of an array in element order,
\* one for any other value.
RECURSIVE QueryPairs(_)
QueryPairs(entries) ==
    IF entries = <<>> THEN <<>>
    ELSE LET e == entries[1]
         IN  (CASE e.value.kind \in {"null", "undefined"} -> <<>>
                [] e.value.kind = "array" ->
                    [i \in 1..Len(e.value.items) |-> <<e.key, e.value.items[i]>>]
                [] OTHER -> << <<e.key, String(e.value)>> >>)
             \o QueryPairs(Tail(entries))

\* The pairs as key=value joined by "&", keys and values form-encoded.
Serialized(pairs) ==
    join([i \in 1..Len(pairs) |->
            formEncode(pairs[i][1]) \o <<"=">> \o formEncode(pairs[i][2])],
         <<"&">>)

\* C7: buildUrl returns buildPath's path, followed by "?" and the serialized
\* query when the query object stands for at least one pair, and the path
\* alone otherwise.
C7_QuerySuffix ==
    Returned("buildUrl")
    => LET pairs == QueryPairs(call.queryParams.entries)
       IN  ret.s = buildPath(call.path, call.params)
                    \o (IF call.queryParams.given /\ pairs # <<>>
                        THEN <<"?">> \o Serialized(pairs) ELSE <<>>)

\* {tag: ['a','b'], t: <scalar>} on a path with a substituted parameter.
C7_Witness ==
    /\ Returned("buildUrl")
    /\ call.queryParams.given
    /\ Len(call.queryParams.entries) = 2
    /\ call.queryParams.entries[1].value.kind = "array"
    /\ Len(call.queryParams.entries[1].value.items) = 2
    /\ call.queryParams.entries[2].value.kind = "string"
    /\ Len(call.params) = 1
    /\ ret.s = <<"/", "u", "/", "x", "%", "2", "F", "?", "g", "=", "a", "&",
               "g", "=", "b", "&", "t", "=", "p", "+">>

\* A query object whose values are all null, undefined or empty arrays adds
\* nothing to the path.
C7_WitnessNoQuery ==
    /\ Returned("buildUrl")
    /\ call.queryParams.given
    /\ Len(call.queryParams.entries) = 2
    /\ ret.s = buildPath(call.path, call.params)

\* The part of a URL before its query string and its fragment.
Stripped(url) ==
    LET marks == {i \in 1..Len(url) : url[i] \in {"?", "#"}}
    IN  IF marks = {} THEN url ELSE SubSeq(url, 1, Min(marks) - 1)

\* str, from its start (and to its end when exact), is the template with
\* each of its characters standing for itself and each ":name" token for one
\* or more characters other than "/".
RECURSIVE MatchesTemplate(_, _, _)
MatchesTemplate(template, str, exact) ==
    IF template = <<>> THEN (~exact \/ str = <<>>)
    ELSE IF Head(template) = ":" /\ wordRun(Tail(template)) > 0
    THEN \E n \in 1..Len(str) :
            /\ \A i \in 1..n : str[i] # "/"
            /\ MatchesTemplate(
                   SubSeq(template, 2 + wordRun(Tail(template)), Len(template)),
                   SubSeq(str, n + 1, Len(str)), exact)
    ELSE /\ str # <<>>
         /\ Head(template) = Head(str)
         /\ MatchesTemplate(Tail(template), Tail(str), exact)

\* C8: isActive returns true exactly when the current URL without query and
\* fragment matches "/" + template, each ":name" token standing for one or
\* more characters other than "/", from the start, and to the end when exact.
C8_ActiveIffMatches ==
    Returned("isActive")
    => (ret = TrueVal <=> MatchesTemplate(<<"/">> \o call.path, Stripped(routerUrl),
                                call.exact))

\* C9: the result of isActive, and the active state the directive computes,
\* are those of the URL cut before its "?" or "#": with the current URL
\* s + "?" + x or s + "#" + x they are what they are with the current URL s.
C9_QueryAndFragmentIgnored ==
    \A i \in 1..Len(routerUrl) :
        (/\ routerUrl[i] \in {"?", "#"}
         /\ \A j \in 1..(i - 1) : routerUrl[j] \notin {"?", "#"})
        => /\ Returned("isActive")
                => ret = BoolVal(isActive(call.path, call.exact,
                                  SubSeq(routerUrl, 1, i - 1)))
           /\ Returned("ngOnChanges")
                => dirIsActive = nowActive(call.typedLinkActiveFor, call.exact,
                                           SubSeq(routerUrl, 1, i - 1))

\* An exact match that the fragment and the query would spoil if they were
\* part of the tested string.
C9_Witness ==
    /\ Returned("isActive")
    /\ call.exact
    /\ call.path = <<"u", "/", ":", "a">>
    /\ routerUrl = <<"/", "u", "/", "x", "#", "f", "?", "q">>
    /\ ret = TrueVal

\* The path segments from the root to each route that has a defined path,
\* the routes without one contributing no segment.
RECURSIVE SegmentChains(_, _)
SegmentChains(routes, chain) ==
    UNION {LET node == routes[i]
               own == IF node.hasPath THEN Append(chain, node.path) ELSE chain
           IN  (IF node.hasPath THEN {own} ELSE {})
                   \cup SegmentChains(node.children, own) : i \in 1..Len(routes)}

\* The same for the routes whose ancestors all have a defined path.
RECURSIVE DefinedChains(_, _)
DefinedChains(routes, chain) ==
    UNION {LET node == routes[i]
           IN  IF node.hasPath
               THEN {Append(chain, node.path)}
                        \cup DefinedChains(node.children, Append(chain, node.path))
               ELSE {} : i \in 1..Len(routes)}

\* A "/"-joined path with its repeated "/" collapsed and its leading "/"
\* dropped: its non-empty segments joined by "/", and the "/" it ends with.
Normalized(path) ==
    LET NonEmpty(seg) == seg # <<>>
        segs == SelectSeq(split(path, "/"), NonEmpty)
    IN  join(segs, <<"/">>)
            \o (IF segs # <<>> /\ path[Len(path)] = "/" THEN <<"/">> ELSE <<>>)

\* C10 as stated: the keys of registerRoutes(tree).paths are the "/"-joined
\* segment chains of all routes of the tree that have a defined path.
C10_KeysAreJoinedChains ==
    Returned("registerRoutes")
    => DOMAIN ret.paths = {join(c, <<"/">>) : c \in SegmentChains(call.routes, <<>>)}

\* C10, amended: the keys are the normalized "/"-joined segment chains of the
\* routes that have a defined path and whose ancestors all have one; an
\* empty normalized path is the key "/" when every ancestor's path is the
\* empty string and no key otherwise.
C10_KeysAreNormalizedChains ==
    Returned("registerRoutes")
    => DOMAIN ret.paths =
        {IF Normalized(join(c, <<"/">>)) = <<>> THEN <<"/">>
         ELSE Normalized(join(c, <<"/">>)) :
            c \in {d \in DefinedChains(call.routes, <<>>) :
                    \/ Normalized(join(d, <<"/">>)) # <<>>
                    \/ \A k \in 1..(Len(d) - 1) : d[k] = <<>>}}

\* [{path: 'a', children: [{path: ':b'}]}] gives {'a', 'a/:b'}.
C10_Witness ==
    /\ Returned("registerRoutes")
    /\ call.routes = <<Route(TRUE, <<"a">>, <<Route(TRUE, <<":", "b">>, <<>>)>>)>>
    /\ DOMAIN ret.paths = { <<"a">>, <<"a", "/", ":", "b">> }

\* buildFullPathIndex of the specification: the index whose full paths are
\* joined by joinSegments, which is JoinPath.
RECURSIVE JoinedIndex(_, _)
JoinedIndex(routes, prefix) ==
    UNION {LET node == routes[i]
               fullPath == JoinPath(prefix, node.path)
               normalizedPath == stripLeadingSlash(collapseSlashes(fullPath))
           IN  IF ~node.hasPath THEN {}
               ELSE (IF normalizedPath # <<>> THEN {normalizedPath}
                     ELSE IF prefix = <<>> THEN {<<"/">>} ELSE {})
                        \cup JoinedIndex(node.children, fullPath) :
           i \in 1..Len(routes)}

\* C11: the full paths of the index are joined by joinSegments: the keys of
\* registerRoutes(tree).paths are those of the index joined with JoinPath, a
\* child with an empty path under a prefix adding no key with a trailing "/".
C11_JoinedByJoinPath ==
    Returned("registerRoutes") => DOMAIN ret.paths = JoinedIndex(call.routes, <<>>)

\* The same for the trees that hold no empty path under a non-empty prefix:
\* there the two joins agree.
C11_AgreeWithoutEmptyChild ==
    (Returned("registerRoutes")
        /\ \A d \in DefinedChains(call.routes, <<>>) :
              \A k \in 2..Len(d) : d[k] = <<>> => \A j \in 1..(k - 1) : d[j] = <<>>)
    => DOMAIN ret.paths = JoinedIndex(call.routes, <<>>)

\* The call is buildPathsMap on one route that has a path and no children.
OneRouteCall ==
    /\ Returned("buildPathsMap")
    /\ Len(call.routes) = 1
    /\ call.routes[1].hasPath
    /\ call.routes[1].children = <<>>

\* The normalized full path of that route, its full path being the prefix
\* and its own path as buildPathsMap puts them together.
OneRoutePath ==
    Normalized(IF call.prefix # <<>> THEN call.prefix \o <<"/">> \o call.routes[1].path
               ELSE call.routes[1].path)

\* C12: a route whose normalized full path is empty registers the sentinel
\* "/" when the prefix is the empty string and nothing under any other
\* prefix; every other route with a path registers its normalized full path;
\* the sentinel is registered in no other case.
C12_SentinelOnlyAtRoot ==
    OneRouteCall
    => DOMAIN ret.paths = DOMAIN call.result \cup
          (IF OneRoutePath # <<>> THEN {OneRoutePath}
           ELSE IF call.prefix = <<>> THEN {<<"/">>} ELSE {})

\* buildPathsMap([{path: ''}], '/', {}) registers nothing.
C12_Witness ==
    /\ OneRouteCall
    /\ call.routes[1].path = <<>>
    /\ call.prefix = <<"/">>
    /\ call.result = <<>>
    /\ DOMAIN ret.paths = {}

\* buildPathsMap([{path: '/'}], '', {}) registers the sentinel.
C12_WitnessRoot ==
    /\ OneRouteCall
    /\ call.routes[1].path = <<"/">>
    /\ call.prefix = <<>>
    /\ call.result = <<>>
    /\ DOMAIN ret.paths = {<<"/">>}

\* The routes of a tree in parent-before-children order, siblings in
\* declaration order, each with its accumulated full path (JoinPath of its
\* ancestors' paths and its own, normalized); a route without a path is
\* passed over with its children, as in the index.
RECURSIVE Preorder(_, _)
Preorder(routes, prefix) ==
    IF routes = <<>> THEN <<>>
    ELSE LET node == Head(routes)
             fullPath == JoinPath(prefix, node.path)
         IN  (IF node.hasPath
              THEN <<[route |-> node, fullPath |-> Normalized(fullPath)]>>
                       \o Preorder(node.children, fullPath)
              ELSE <<>>)
             \o Preorder(Tail(routes), prefix)

FirstOf(visits) == IF visits = <<>> THEN Never ELSE Found(visits[1].route)

\* Every route of the tree has a path of one segment with a name.
RECURSIVE PlainTree(_)
PlainTree(routes) ==
    \A i \in 1..Len(routes) :
        /\ routes[i].hasPath
        /\ routes[i].path \in {<<"a">>, <<":", "b">>}
        /\ PlainTree(routes[i].children)

\* C13 as stated: FindRoute selects the first route, in that order, whose
\* accumulated full path equals the target, and never when there is none
\* (stated for the trees whose routes all have a one-segment path).
C13_FirstByFullPath ==
    (Returned("FindRoute") /\ PlainTree(call.routes))
    => LET Matches(v) == v.fullPath = call.path
       IN  ret = FirstOf(SelectSeq(Preorder(call.routes, <<>>), Matches))

\* C13, amended: FindRoute selects the first route, in that order, whose own
\* path equals the target, and never when there is none.
C13_FirstByOwnPath ==
    Returned("FindRoute")
    => LET Matches(v) == v.route.path = call.path
       IN  ret = FirstOf(SelectSeq(Preorder(call.routes, <<>>), Matches))

\* FindRoute<[{path: 'a', children: [{path: ':b'}]}], ':b'> is the child.
C13_Witness ==
    /\ Returned("FindRoute")
    /\ call.routes = <<Route(TRUE, <<"a">>, <<Route(TRUE, <<":", "b">>, <<>>)>>)>>
    /\ call.path = <<":", "b">>
    /\ ret = Found(Route(TRUE, <<":", "b">>, <<>>))

\* The object has what the type PathParams<Path> asks for: a string for
\* every name of ExtractPathParams<Path>.
IsPathParams(Path, params) ==
    \A K \in ExtractPathParams(Path) :
        \E i \in 1..Len(params) : params[i].key = K /\ params[i].value.kind = "string"

\* C14: getParamNames returns the names ExtractPathParams declares, and
\* validateParams accepts an object of strings exactly when it is a
\* PathParams<Path> (stated for names of at least one character).
C14_TypeAndRuntimeNames ==
    /\ (Returned("getParamNames") /\ WellNamed)
            => Range(ret.items) = ExtractPathParams(call.path)
    /\ (Returned("validateParams") /\ WellNamed
            /\ \A i \in 1..Len(call.params) : call.params[i].value.kind = "string")
            => (ret = TrueVal <=> IsPathParams(call.path, call.params))

\* C18: a template has parameters by the HasParams type exactly when
\* getParamNames returns a name for it (stated for names of at least one
\* character).
C18_HasParamsIffNames ==
    (Returned("getParamNames") /\ WellNamed)
    => (HasParams(call.path) <=> ret.items # <<>>)

\* C19: for a template with a segment that is exactly ":", getParamNames
\* returns the empty name and validateParams returns false for an object
\* without a non-null entry for the key "".
C19_EmptyNameRequired ==
    (pc = "done" /\ <<":">> \in Range(split(call.path, "/")))
    => /\ call.op = "getParamNames" => <<>> \in Range(ret.items)
       /\ (call.op = "validateParams" /\ ~Provides(call.params, <<>>))
            => ret = FalseVal

\* C15: for a template without parameters, buildPath(t, {}) is t when t
\* starts with "/" and "/" followed by t otherwise.
C15_NoParamsRoundTrip ==
    (Returned("buildPath") /\ call.params = <<>>
        /\ extractParameterNames(call.path) = <<>>)
    => ret.s = IF startsWith(call.path, <<"/">>) THEN call.path
               ELSE <<"/">> \o call.path

\* buildPath('/u', {}) is '/u'.
C15_Witness ==
    /\ Returned("buildPath")
    /\ call.params = <<>>
    /\ call.path = <<"/", "u">>
    /\ ret.s = <<"/", "u">>

\* buildPath('u/u', {}) is '/u/u'.
C15_WitnessPrefixed ==
    /\ Returned("buildPath")
    /\ call.params = <<>>
    /\ call.path = <<"u", "/", "u">>
    /\ ret.s = <<"/", "u", "/", "u">>

\* The entries of params whose key is one of the names.
Restrict(params, names) ==
    LET Kept(e) == e.key \in names
    IN  SelectSeq(params, Kept)

\* C16: validateParams returns a boolean; it returns false when params has
\* no non-null entry for a segment-based parameter name; the keys of params
\* beyond those names do not turn true into false (stated for names of at
\* least one character).
C16_FalseWhenNameMissing ==
    (Returned("validateParams") /\ WellNamed)
    => LET names == Range(extractParameterNames(call.path))
       IN  /\ ret \in {TrueVal, FalseVal}
           /\ (\E name \in names : ~Provides(call.params, name)) => ret = FalseVal
           /\ validateParams(call.path, Restrict(call.params, names))
                => ret = TrueVal

\* The same with the names validateParams itself requires: those the
\* expression /:(\w+)/g matches.
C16_HoldsForMatchedNames ==
    Returned("validateParams")
    => LET names == Range(getParamNames(call.path))
       IN  /\ ret \in {TrueVal, FalseVal}
           /\ (\E name \in names : ~Provides(call.params, name)) => ret = FalseVal
           /\ validateParams(call.path, Restrict(call.params, names))
                => ret = TrueVal

\* The string holds the other as a substring.
Contains(str, sub) ==
    \E i \in 1..(Len(str) - Len(sub) + 1) : SubSeq(str, i, i + Len(sub) - 1) = sub

\* The snapshot has no parameter of the name asked for.
Absent == \A i \in 1..Len(snapshot.params) : snapshot.params[i].key # call.paramName

\* The value the snapshot has for the name asked for.
Present(value) ==
    \E i \in 1..Len(snapshot.params) :
        snapshot.params[i].key = call.paramName /\ snapshot.params[i].value = value

\* C17: getRequiredTypedParam and paramSnapshotRequired throw, with the
\* parameter's name in the message, exactly when the snapshot has no such
\* parameter, and return its value otherwise; getTypedParam and
\* paramSnapshot never throw, return null when it has none and its value
\* otherwise.
C17_RequiredThrowsOptionalNull ==
    /\ (Returned("getRequiredTypedParam") \/ Returned("paramSnapshotRequired"))
        => /\ ret.kind = "error" <=> Absent
           /\ ret.kind = "error"
                => Contains(ret.s, <<"\"">> \o call.paramName \o <<"\"">>)
           /\ ~Absent => Present(ret)
    /\ (Returned("getTypedParam") \/ Returned("paramSnapshot"))
        => /\ ret.kind # "error"
           /\ Absent => ret = NullVal
           /\ ~Absent => Present(ret)

\* paramSnapshotRequired throws for a parameter the snapshot lacks.
C17_Witness ==
    /\ Returned("paramSnapshotRequired")
    /\ call.paramName = <<"a", "b">>
    /\ snapshot.params = <<Entry(<<"a">>, StrVal(<<"x">>))>>
    /\ ret.kind = "error"

\* getRequiredTypedParam returns an empty value that the snapshot has.
C17_WitnessEmptyValue ==
    /\ Returned("getRequiredTypedParam")
    /\ call.paramName = <<"a">>
    /\ snapshot.params = <<Entry(<<"a">>, StrVal(<<>>))>>
    /\ ret = StrVal(<<>>)

C23_ClassesFollowMatch ==
    Returned("ngOnChanges")
    => (classesOf(call.activeClass) \subseteq hostClasses
            <=> nowActive(call.typedLinkActiveFor, call.exact, routerUrl))


\* The list with its elements i and i + 1 exchanged.
SwapAt(seq, i) ==
    [j \in 1..Len(seq) |-> IF j = i THEN seq[i + 1] ELSE IF j = i + 1 THEN seq[i] ELSE seq[j]]

\* The trees that differ from the tree by the exchange of two neighbouring
\* siblings, at the top level or among the children of any route.  Every
\* permutation of siblings is a chain of such exchanges.
RECURSIVE SiblingSwaps(_)
SiblingSwaps(routes) ==
    {SwapAt(routes, i) : i \in 1..(Len(routes) - 1)}
        \cup UNION {{[routes EXCEPT ![i].children = c] :
                        c \in SiblingSwaps(routes[i].children)} :
                    i \in 1..Len(routes)}

\* C22: the index does not depend on the order of siblings: the tree with
\* two neighbouring siblings exchanged, at any level, has the same keys with
\* the same values.
C22_SiblingOrderIrrelevant ==
    Returned("registerRoutes")
    => \A swapped \in SiblingSwaps(call.routes) :
          registerRoutes(swapped).paths = ret.paths

\* [{path: 'a', children: [{path: ':b'}, {path: 'a'}]}], whose children can
\* be exchanged.
C22_Witness ==
    /\ Returned("registerRoutes")
    /\ call.routes = <<Route(TRUE, <<"a">>,
                         <<Route(TRUE, <<":", "b">>, <<>>), Route(TRUE, <<"a">>, <<>>)>>)>>
    /\ SiblingSwaps(call.routes) # {}
    /\ DOMAIN ret.paths = { <<"a">>, <<"a", "/", ":", "b">>, <<"a", "/", "a">> }

\* The string holds "//".
HasDoubleSlash(str) == \E i \in 1..(Len(str) - 1) : str[i] = "/" /\ str[i + 1] = "/"

\* C29: every key of registerRoutes(tree).paths maps to itself, is not the
\* empty string, holds no "//" and, unless it is the sentinel "/", does not
\* start with "/".
C29_KeysWellFormed ==
    Returned("registerRoutes")
    => \A k \in DOMAIN ret.paths :
          /\ ret.paths[k] = k
          /\ k # <<>>
          /\ ~HasDoubleSlash(k)
          /\ k # <<"/">> => k[1] # "/"

\* [{path: 'a', children: [{path: '/a'}]}]: the full path 'a//a' is
\* registered as 'a/a'.
C29_Witness ==
    /\ Returned("registerRoutes")
    /\ call.routes = <<Route(TRUE, <<"a">>, <<Route(TRUE, <<"/", "a">>, <<>>)>>)>>
    /\ DOMAIN ret.paths = { <<"a">>, <<"a", "/", "a">> }


\* The characters "?" and "#" of the string, in order.
Marks(str) ==
    LET IsMark(c) == c \in {"?", "#"}
    IN  SelectSeq(str, IsMark)

\* The call is buildPath on a template that does not start with "/", with
\* a string for every parameter of the template.
CoveredBuildPath ==
    /\ Returned("buildPath")
    /\ WellNamed
    /\ ~startsWith(call.path, <<"/">>)
    /\ \A i \in 1..Len(call.params) : call.params[i].value.kind = "string"
    /\ Range(extractParameterNames(call.path)) \subseteq Keys(call.params)

\* C28: the path buildPath returns has as many "/"-separated segments as
\* "/" followed by the template, and no "?" or "#" but those of the
\* template, whatever the values are.
C28_ShapeKept ==
    CoveredBuildPath
    => /\ Len(split(ret.s, "/")) = Len(split(<<"/">> \o call.path, "/"))
       /\ Marks(ret.s) = Marks(call.path)

\* The same for values of at least one character: there the shape is kept.
C28_ShapeKeptByNonEmptyValues ==
    (CoveredBuildPath /\ \A i \in 1..Len(call.params) : call.params[i].value.s # <<>>)
    => /\ Len(split(ret.s, "/")) = Len(split(<<"/">> \o call.path, "/"))
       /\ Marks(ret.s) = Marks(call.path)


\* The map gives a string of at least one character to every name.
GivesAll(params, names) ==
    \A name \in names :
        \E i \in 1..Len(params) :
            /\ params[i].key = name
            /\ params[i].value.kind = "string"
            /\ params[i].value.s # <<>>

\* The router's URL is the path built from the template of the isActive
\* call and a map that gives a value to every parameter PathParams<P>
\* names; the template has no leading slash.
OnBuiltPath ==
    /\ Returned("isActive")
    /\ ~startsWith(call.path, <<"/">>)
    /\ \E p \in RoundTripParams :
          /\ GivesAll(p, ExtractPathParams(call.path))
          /\ routerUrl = buildPath(call.path, p)

\* C27: when the router's URL is the path built from a template and a map
\* with a non-empty value for every parameter of the template, isActive
\* returns true for that template, exact or not.
C27_BuiltPathIsActive == OnBuiltPath => ret = TrueVal

\* The round trip holds where the maps are keyed by the names the runtime
\* regex extracts.
C27_BuiltByRuntimeNamesIsActive ==
    (/\ Returned("isActive")
     /\ ~startsWith(call.path, <<"/">>)
     /\ \E p \in RoundTripParams :
           /\ GivesAll(p, Range(getParamNames(call.path)))
           /\ Keys(p) \subseteq Range(getParamNames(call.path))
           /\ routerUrl = buildPath(call.path, p))
    => ret = TrueVal

\* A one-parameter template is active on the path built from it.
C27_RoundTripSeen ==
    /\ OnBuiltPath
    /\ call.path = <<":", "a">>
    /\ call.exact
    /\ ret = TrueVal


\* options.extras plus queryParams when the options hold queryParams.
ExtrasPlusQuery(options) ==
    LET extras == IF options.given /\ options.extrasGiven THEN options.extras
                  ELSE NoExtras
    IN  IF options.given /\ options.queryParams.given
        THEN [extras EXCEPT !.queryParams = options.queryParams]
        ELSE extras

\* options.params or {}
ParamsOrEmpty(options) ==
    IF options.given /\ options.params.given THEN options.params.entries ELSE <<>>

\* C26: navigate calls Router.navigate exactly once, with the one command
\* buildPath(path, options.params or {}) and with options.extras plus
\* queryParams only when queryParams were supplied; createUrl and
\* serializePath call the router zero times and return
\* buildUrl(path, params, queryParams) and buildPath(path, params).
C26_NavigateOnceOthersNever ==
    /\ Returned("navigate")
        => navigations =
             <<[commands |-> <<buildPath(call.path, ParamsOrEmpty(call.options))>>,
                extras |-> ExtrasPlusQuery(call.options)]>>
    /\ Returned("createUrl")
        => /\ navigations = <<>>
           /\ ret = StrVal(buildUrl(call.path, ParamsOrEmpty(call.options),
                                    IF call.options.given
                                    THEN call.options.queryParams ELSE NotGiven))
    /\ Returned("serializePath")
        => /\ navigations = <<>>
           /\ ret = StrVal(buildPath(call.path, call.options.params.entries))

\* navigate(':a/u', {params: {a: 'x/'}, queryParams: {t: 'p '}, extras})
\* with extras that hold replaceUrl and query parameters of their own: one
\* call for '/x%2F/u', replaceUrl kept, the query parameters of the options.
C26_Witness ==
    /\ Returned("navigate")
    /\ call.path = <<":", "a", "/", "u">>
    /\ call.options.extrasGiven
    /\ call.options.extras.queryParams.given
    /\ call.options.queryParams = Given(<<Entry(<<"t">>, StrVal(<<"p", " ">>))>>)
    /\ Len(navigations) = 1
    /\ navigations[1].commands = << <<"/", "x", "%", "2", "F", "/", "u">> >>
    /\ navigations[1].extras.replaceUrl = TrueVal
    /\ navigations[1].extras.queryParams = call.options.queryParams

\* createUrl('u', {queryParams: {t: 'p '}}) returns '/u?t=p+' and the
\* router is not called.
C26_WitnessCreateUrl ==
    /\ Returned("createUrl")
    /\ ret = StrVal(<<"/", "u", "?", "t", "=", "p", "+">>)
    /\ navigations = <<>>


\* A primary-button click with no modifier key.
PlainClick == call.event.button = 0 /\ call.event.modifier = "none"

\* The target input is unset or "_self".
OwnTarget == link.target \in {UndefVal, StrVal(<<"_", "s", "e", "l", "f">>)}

\* What onClick does on the three kinds of click.
ClickHandled ==
    /\ (PlainClick /\ OwnTarget /\ link.href # NullVal)
        => /\ call.event.defaultPrevented
           /\ Len(navigations) = 1
           /\ navigations[1].commands =
                 <<buildPath(link.path, IF link.linkParams.given
                                        THEN link.linkParams.entries ELSE <<>>)>>
           /\ ret = FalseVal
    /\ (~PlainClick \/ ~OwnTarget)
        => /\ ~call.event.defaultPrevented
           /\ navigations = <<>>
           /\ ret = TrueVal
    /\ (PlainClick /\ OwnTarget /\ link.href = NullVal)
        => /\ call.event.defaultPrevented
           /\ navigations = <<>>
           /\ ret = FalseVal

\* C24: a plain primary-button click on a link whose target is unset or
\* "_self" and whose href is not null prevents the default, calls
\* Router.navigate once with the command buildPath(path, linkParams or {})
\* and returns false; a modified or non-primary click, or another target,
\* returns true without preventDefault and without navigating; a null href
\* prevents the default and returns false without navigating (stated for
\* the clicks on a link with an href; C24_NullHref is the rest).
C24_ClickNavigates ==
    (Returned("onClick") /\ link.href # NullVal) => ClickHandled

\* The clicks on a link whose href is null.
C24_NullHref ==
    (Returned("onClick") /\ link.href = NullVal) => ClickHandled

\* The same for links whose target input is set: there it holds.
C24_HoldsWhenTargetSet ==
    (Returned("onClick") /\ link.target # UndefVal) => ClickHandled


\* buildUrl(path, linkParams or {}, queryParams) of the link's inputs.
LinkUrl ==
    buildUrl(link.path,
             IF link.linkParams.given THEN link.linkParams.entries ELSE <<>>,
             link.queryParams)

\* "#" and the fragment when a fragment of at least one character is set.
FragmentSuffix ==
    IF link.fragment.kind = "string" /\ link.fragment.s # <<>>
    THEN <<"#">> \o link.fragment.s ELSE <<>>

\* C25: after every ngOnChanges of the link directive, href is null when the
\* path input is empty and otherwise is buildUrl(path, linkParams or {},
\* queryParams) followed by "#" and the fragment when a non-empty fragment
\* is set: the query string stands before the fragment, and href is a
\* function of the current inputs alone.
C25_HrefOfCurrentInputs ==
    Returned("link.ngOnChanges")
    => /\ link.path = <<>> => link.href = NullVal
       /\ link.path # <<>>
            => /\ link.href = StrVal(LinkUrl \o FragmentSuffix)
               /\ splitFirst(link.href.s, "#") = LinkUrl

\* typedLink ':a' with linkParams {a: 'x/'}, queryParams {t: ['a', 'b'],
\* g: null} and fragment 'f': href is '/x%2F?t=a&t=b#f'.
C25_Witness ==
    /\ Returned("link.ngOnChanges")
    /\ link.path = <<":", "a">>
    /\ link.linkParams.given
    /\ link.fragment = StrVal(<<"f">>)
    /\ link.href = StrVal(<<"/", "x", "%", "2", "F", "?", "t", "=", "a", "&",
                            "t", "=", "b", "#", "f">>)

\* The path input was emptied on a link that had an href: href is null.
C25_WitnessEmptied ==
    /\ Returned("link.ngOnChanges")
    /\ link.path = <<>>
    /\ link.href = NullVal
    /\ link.fragment = StrVal(<<"f">>)


\* What every caller holds is what its call returns when it runs alone.
AsAlone ==
    \A c \in Callers :
        /\ callers[c].called
            => /\ callers[c].registry.routes = callers[c].routes
               /\ callers[c].registry.paths \in DOMAIN indexes
               /\ indexes[callers[c].registry.paths]
                     = registerRoutes(callers[c].routes).paths
        /\ callers[c].built # <<>>
            => callers[c].built = buildPath(callers[c].path, callers[c].params)

\* No step writes to an index object that exists already.
IndexesReadOnly ==
    \A ref \in DOMAIN indexes :
        ref \in DOMAIN indexes' /\ indexes'[ref] = indexes[ref]

\* C21: an index is written during its own registerRoutes call only (no
\* step changes an index object that exists, so no two calls write to the
\* same one), and under every interleaving of the callers' calls each
\* caller holds the result its call returns when run alone.
C21_NoSharedMutableState == [](AsAlone) /\ [][IndexesReadOnly]_vars

\* Two callers registered different trees, the second after the first:
\* each holds an index object of its own.
C21_Witness ==
    /\ callers["A"].called /\ callers["B"].called
    /\ callers["A"].routes # callers["B"].routes
    /\ callers["A"].registry.paths # callers["B"].registry.paths
    /\ DOMAIN indexes[callers["A"].registry.paths]
          # DOMAIN indexes[callers["B"].registry.paths]
    /\ callers["A"].built # <<>>

====
